---------------------------- MODULE Spec2Model ----------------------------
(***************************************************************************)
(* TaskFlow: the live voice session of the App component                   *)
(* (startLiveSession / stopLiveSession / stopAudioProcessing and the       *)
(* callbacks handed to ai.live.connect) together with the DjangoAPI mock   *)
(* store the tool calls act on.                                            *)
(*                                                                         *)
(* One page load runs one App instance.  Every call of startLiveSession    *)
(* creates a closure (stream, inputCtx, outputCtx, nextStartTime,          *)
(* sessionPromise); closures are numbered 1..MaxSessions in start order.   *)
(* The refs audioContextRef / inputSourceRef / processorRef and the state  *)
(* isLiveActive / liveError belong to the App instance and are shared by   *)
(* all closures of a page.  Time is counted in whole samples of the output *)
(* context, so buffer.duration is the sample count of the buffer.          *)
(***************************************************************************)
EXTENDS Integers, Sequences, FiniteSets, TLC

\* ------------------------------------------------------------------ bounds
MaxSessions == 2
MaxReloads == 1
MaxTime == 3
MaxSegments == 3
MaxBytes == 4
MaxMessages == 2
MaxCalls == 2
SampleStride == 257
MaxFrames == 3
MaxUiOps == 1
MaxNow == 3

Sessions == 1..MaxSessions

\* --------------------------------------------------------- program literals
NoError == "null"
ConnectionError == "Connection error."
DeviceUnavailable == "Microphone access denied."
UnknownFunction == "Unknown function"
NotFound == "404 Not Found"

VARIABLES
  page,               \* number of page loads done by window.location.reload()
  isLiveActive,       \* useState isLiveActive
  liveError,          \* useState liveError
  audioContextRef,    \* 0 = null, else the session whose outputCtx it holds
  inputSourceRef,     \* 0 = null, else the session whose stream source it holds
  processorRef,       \* 0 = null, else the session whose processor it holds
  localStorage,       \* the task list stored under DB_NAME
  tasks,              \* useState tasks
  mountLoad,          \* the loadTasks() of the mount effect is still pending
  pc,                 \* position of each startLiveSession call
  born,               \* the page load a session was started in
  stream,             \* the MediaStream of getUserMedia: none / live / stopped
  inputCtx,           \* none / running / closed
  outputCtx,          \* none / running / closed
  ws,                 \* the connection: none / connecting / open / error / closed
  sessionPromise,     \* none / pending / resolved / rejected
  sourceConnected,    \* source.connect(processor) is in effect
  processorConnected, \* processor.connect(inputCtx.destination) is in effect
  opened,             \* the onopen callback has run
  errored,            \* the onerror callback has run
  closed,             \* the onclose callback has run
  closeRejected,      \* outputCtx.close() was called on a closed context
  nextStartTime,      \* the closure variable nextStartTime
  currentTime,        \* outputCtx.currentTime
  started,            \* the source.start(startTime) calls: <<startTime, duration>>
  unhandled,          \* an onmessage call ended with an exception
  handlers,           \* the onmessage calls that reached the tool-call loop
  thenQueue,          \* callbacks registered on a pending sessionPromise
  toolResponses,      \* the session.sendToolResponse calls, in call order
  captured,           \* number of onaudioprocess callbacks of each processor
  frameQueue,         \* frames whose send waits on a pending sessionPromise
  realtimeInputs,     \* the session.sendRealtimeInput calls, in call order
  uiOps,              \* the DjangoAPI calls of the task handlers, pending or done
  now,                \* the wall clock, in minutes
  notifiedRef,        \* notifiedRef.current: task id -> flags already raised
  toasts,             \* the addToast calls: <<type, task id>>
  float32,            \* a captured sample, in units of 1 / FloatScale
  int16,              \* <<v>> once float32To16BitPCM has stored the sample
  base64,             \* the sextets of arrayBufferToBase64, once computed
  decoded             \* <<v>>: the decoded sample, in units of 1 / 32768

appVars == <<page, isLiveActive, liveError, audioContextRef, inputSourceRef, processorRef>>
storeVars == <<localStorage, tasks, mountLoad>>
sessVars == <<pc, born, stream, inputCtx, outputCtx, ws, sessionPromise,
              sourceConnected, processorConnected, opened, errored, closed,
              closeRejected>>
playVars == <<nextStartTime, currentTime, started, unhandled>>
toolVars == <<handlers, thenQueue, toolResponses>>
captureVars == <<captured, frameQueue, realtimeInputs>>
notifierVars == <<now, notifiedRef, toasts>>
codecVars == <<float32, int16, base64, decoded>>
extVars == <<captureVars, uiOps, notifierVars, codecVars>>
vars == <<appVars, storeVars, sessVars, playVars, toolVars, extVars>>

\* A session whose page has been reloaded: its closure no longer exists.
Unloaded(s) == pc[s] # "none" /\ born[s] # page

Live(s) == pc[s] # "none" /\ born[s] = page

Max(a, b) == IF a >= b THEN a ELSE b

\* ------------------------------------------------------------- the store
\* A Task as DjangoAPI stores it (description, created_at and subtasks
\* carry no behaviour here and are left out).  due_date is the minute the
\* task is due, 0 for the empty string.
Task(id, title, priority, completed, completed_at, due_date) ==
  [id |-> id, title |-> title, priority |-> priority, completed |-> completed,
   completed_at |-> completed_at, due_date |-> due_date]

\* localStorage survives page loads: a first visit, or a list left by
\* earlier use of the app.
InitialStores ==
  { <<>>,
    << Task(2, "Pay rent", "High", TRUE, "stamped", 0),
       Task(1, "Call mum", "Low", FALSE, "none", 2) >> }

\* The ids a task can get: the two stored ones and one per creation.
TaskIds == 1..(2 + MaxCalls + MaxUiOps)

RECURSIVE MaxId(_)
MaxId(ts) == IF ts = <<>> THEN 0 ELSE Max(Head(ts).id, MaxId(Tail(ts)))

\* tasks.findIndex(t => t.id === id): 0 stands for -1.
RECURSIVE findIndexFrom(_, _, _)
findIndexFrom(ts, id, i) ==
  IF i > Len(ts) THEN 0
  ELSE IF ts[i].id = id THEN i
  ELSE findIndexFrom(ts, id, i + 1)

findIndex(ts, id) == findIndexFrom(ts, id, 1)

\* DjangoAPI.createTask: the task it builds from the stored list.
createTaskNew(ts, title, priority) ==
  Task(IF Len(ts) > 0 THEN MaxId(ts) + 1 ELSE 1, title, priority, FALSE, "none", 0)

\* DjangoAPI.updateTask: { ...tasks[index], ...updates } at the task's place.
updateTaskWith(ts, id, updates) ==
  [ts EXCEPT ![findIndex(ts, id)] =
     [f \in DOMAIN @ |-> IF f \in DOMAIN updates THEN updates[f] ELSE @[f]]]

\* DjangoAPI.updateTask with updates = {completed}.
updateTaskList(ts, id, completed) ==
  [ts EXCEPT ![findIndex(ts, id)].completed = completed]

\* DjangoAPI.deleteTask.
deleteTaskList(ts, id) ==
  LET keep(t) == t.id # id IN SelectSeq(ts, keep)

\* Mutant of deleteCompletedList: the filter keeps the completed tasks.
deleteCompletedKeepsCompleted(ts) ==
  LET keep(t) == t.completed IN SelectSeq(ts, keep)

\* DjangoAPI.deleteCompletedTasks.
deleteCompletedList(ts) ==
  LET keep(t) == ~t.completed IN SelectSeq(ts, keep)

\* ---------------------------------------------------------- tool calls
ToolNames == {"create_task", "get_tasks", "update_task_status", "delete_task",
              "delete_completed_tasks"}

\* The function calls the remote end may put in a toolCall message (without
\* their ids).  priority "" stands for an absent argument.
FunctionCall(name, title, priority, id, completed) ==
  [name |-> name, title |-> title, priority |-> priority, taskId |-> id,
   completed |-> completed]

FunctionCalls ==
  { FunctionCall("create_task", "Buy milk", "", 0, FALSE),
    FunctionCall("get_tasks", "", "", 0, FALSE),
    FunctionCall("delete_completed_tasks", "", "", 0, FALSE),
    FunctionCall("set_reminder", "", "", 0, FALSE),
    FunctionCall("update_task_status", "", "", 1, TRUE),
    FunctionCall("delete_task", "", "", 1, FALSE) }

\* The calls of the dispatch specification: a call that succeeds and
\* reloads the list, one that only reads, one that fails when task 1 is not
\* stored, and one whose name matches no case.
DispatchCalls ==
  { fc \in FunctionCalls :
      fc.name \in {"create_task", "get_tasks", "update_task_status", "set_reminder"} }

\* The calls of the store specification: the four that write the stored
\* list.
StoreCalls ==
  { fc \in FunctionCalls :
      fc.name \in {"create_task", "update_task_status", "delete_task",
                   "delete_completed_tasks"} }

\* The calls of the task-handler specification: one that adds a task and
\* one that changes a stored one.
UiCalls ==
  { fc \in FunctionCalls : fc.name \in {"create_task", "update_task_status"} }

\* msg.toolCall.functionCalls: up to MaxCalls calls drawn from pool.
ToolCalls(pool) ==
  UNION { [1..n -> pool] : n \in 0..MaxCalls }

\* The id the remote end gives call i of the m-th toolCall message.
CallId(m, i) == 10 * m + i

WithIds(m, fcs) ==
  [i \in 1..Len(fcs) |->
     [id |-> CallId(m, i), name |-> fcs[i].name, args |-> fcs[i]]]

\* The values of `result`.
NoTask == <<>>
ErrorResult(message) ==
  [error |-> message, success |-> FALSE, task |-> NoTask, tasks |-> <<>>, count |-> -1]
SuccessResult ==
  [error |-> "", success |-> TRUE, task |-> NoTask, tasks |-> <<>>, count |-> -1]
CreatedResult(task) ==
  [error |-> "", success |-> TRUE, task |-> <<task>>, tasks |-> <<>>, count |-> -1]
CountResult(count) ==
  [error |-> "", success |-> TRUE, task |-> NoTask, tasks |-> <<>>, count |-> count]
TasksResult(ts) ==
  [error |-> "", success |-> FALSE, task |-> NoTask, count |-> -1,
   tasks |-> [i \in 1..Len(ts) |->
                [id |-> ts[i].id, title |-> ts[i].title, priority |-> ts[i].priority,
                 completed |-> ts[i].completed, due_date |-> ts[i].due_date]]]

\* Mutant of functionResponse: every response carries the id of the first
\* call of the message.
functionResponseFirstId(fc, result) ==
  [id |-> (fc.id \div 10) * 10 + 1, name |-> fc.name, result |-> result]

\* The argument of session.sendToolResponse for call fc.
functionResponse(fc, result) ==
  [id |-> fc.id, name |-> fc.name, result |-> result]

\* The loop runs without yielding over calls whose name matches no case:
\* the index of the next call that awaits the store (Len + 1 if none).
\* The function calls of all toolCall messages received so far.
RECURSIVE callCount(_)
callCount(hs) == IF hs = <<>> THEN 0 ELSE Len(Head(hs).calls) + callCount(Tail(hs))

RECURSIVE nextAwait(_, _)
nextAwait(calls, k) ==
  IF k > Len(calls) THEN k
  ELSE IF calls[k].name \in ToolNames THEN k
  ELSE nextAwait(calls, k + 1)

\* Mutant of unknownResponses: `result` starts as a success.
unknownResponsesSucceed(calls, from, to) ==
  [i \in 1..(to - from) |-> functionResponse(calls[from + i - 1], SuccessResult)]

\* The responses of the calls from..to-1, none of which matches a case.
unknownResponses(calls, from, to) ==
  [i \in 1..(to - from) |->
     functionResponse(calls[from + i - 1], ErrorResult(UnknownFunction))]

\* Mutant of sendToolResponses: a response goes in front of the earlier ones.
sendToolResponsesNewestFirst(s, rs) ==
  /\ toolResponses' = [toolResponses EXCEPT ![s] =
                         IF sessionPromise[s] = "resolved" THEN rs \o @ ELSE @]
  /\ thenQueue' = [thenQueue EXCEPT ![s] =
                     IF sessionPromise[s] = "pending" THEN rs \o @ ELSE @]

\* sessionPromise.then(session => session.sendToolResponse(..)) for each of rs.
sendToolResponses(s, rs) ==
  /\ toolResponses' = [toolResponses EXCEPT ![s] =
                         IF sessionPromise[s] = "resolved" THEN @ \o rs ELSE @]
  /\ thenQueue' = [thenQueue EXCEPT ![s] =
                     IF sessionPromise[s] = "pending" THEN @ \o rs ELSE @]

InitApp ==
  /\ page = 0
  /\ isLiveActive = FALSE
  /\ liveError = NoError
  /\ audioContextRef = 0
  /\ inputSourceRef = 0
  /\ processorRef = 0
  /\ localStorage \in InitialStores
  /\ tasks = <<>>
  /\ mountLoad = TRUE
  /\ pc = [s \in Sessions |-> "none"]
  /\ born = [s \in Sessions |-> 0]
  /\ stream = [s \in Sessions |-> "none"]
  /\ inputCtx = [s \in Sessions |-> "none"]
  /\ outputCtx = [s \in Sessions |-> "none"]
  /\ ws = [s \in Sessions |-> "none"]
  /\ sessionPromise = [s \in Sessions |-> "none"]
  /\ sourceConnected = [s \in Sessions |-> FALSE]
  /\ processorConnected = [s \in Sessions |-> FALSE]
  /\ opened = [s \in Sessions |-> FALSE]
  /\ errored = [s \in Sessions |-> FALSE]
  /\ closed = [s \in Sessions |-> FALSE]
  /\ closeRejected = [s \in Sessions |-> FALSE]
  /\ nextStartTime = [s \in Sessions |-> 0]
  /\ currentTime = [s \in Sessions |-> 0]
  /\ started = [s \in Sessions |-> <<>>]
  /\ unhandled = [s \in Sessions |-> FALSE]
  /\ handlers = <<>>
  /\ thenQueue = [s \in Sessions |-> <<>>]
  /\ toolResponses = [s \in Sessions |-> <<>>]
  /\ captured = [s \in Sessions |-> 0]
  /\ frameQueue = [s \in Sessions |-> <<>>]
  /\ realtimeInputs = [s \in Sessions |-> <<>>]
  /\ uiOps = <<>>
  /\ now = 0
  /\ notifiedRef = [id \in TaskIds |-> [approaching |-> FALSE, overdue |-> FALSE]]
  /\ toasts = <<>>
  /\ int16 = <<>>
  /\ base64 = <<>>
  /\ decoded = <<>>

Init ==
  /\ InitApp
  /\ float32 = 0

\* ------------------------------------------------------------- loadTasks
\* The mount effect's loadTasks(): getTasks resolves, setTasks(data).
loadTasks ==
  /\ mountLoad
  /\ tasks' = localStorage
  /\ mountLoad' = FALSE
  /\ UNCHANGED <<localStorage, appVars, sessVars, playVars, toolVars>>
  /\ UNCHANGED extVars

\* ------------------------------------------------------ startLiveSession
\* onToggleLive={isLiveActive ? stopLiveSession : startLiveSession}: which
\* handler the voice button calls.
toggleStarts == ~isLiveActive

\* Mutant of toggleStops: the two branches of the toggle are swapped.
toggleStopsSwapped == ~isLiveActive

toggleStops == isLiveActive

\* The call runs up to `await getUserMedia`.
startLiveSession(s) ==
  /\ toggleStarts
  /\ pc[s] = "none"
  /\ \A r \in Sessions : r < s => pc[r] # "none"
  /\ liveError' = NoError
  /\ pc' = [pc EXCEPT ![s] = "gum"]
  /\ born' = [born EXCEPT ![s] = page]
  /\ UNCHANGED <<toolVars, page, isLiveActive, audioContextRef, inputSourceRef, processorRef,
                 stream, inputCtx, outputCtx, ws, sessionPromise, sourceConnected,
                 processorConnected, opened, errored, closed, closeRejected,
                 storeVars, playVars>>
  /\ UNCHANGED extVars

\* getUserMedia resolves: both contexts are built, audioContextRef is set,
\* nextStartTime = 0 and ai.live.connect is called (not awaited).
getUserMediaGranted(s) ==
  /\ pc[s] = "gum" /\ Live(s)
  /\ pc' = [pc EXCEPT ![s] = "connect"]
  /\ stream' = [stream EXCEPT ![s] = "live"]
  /\ inputCtx' = [inputCtx EXCEPT ![s] = "running"]
  /\ outputCtx' = [outputCtx EXCEPT ![s] = "running"]
  /\ audioContextRef' = s
  /\ nextStartTime' = [nextStartTime EXCEPT ![s] = 0]
  /\ sessionPromise' = [sessionPromise EXCEPT ![s] = "pending"]
  /\ ws' = [ws EXCEPT ![s] = "connecting"]
  /\ UNCHANGED <<toolVars, page, isLiveActive, liveError, inputSourceRef, processorRef, born,
                 sourceConnected, processorConnected, opened, errored, closed,
                 closeRejected, currentTime, started, unhandled, storeVars>>
  /\ UNCHANGED extVars

\* Mutant of getUserMediaDenied: the catch block shows the connection message.
getUserMediaDeniedAsConnection(s) ==
  /\ pc[s] = "gum" /\ Live(s)
  /\ pc' = [pc EXCEPT ![s] = "caught"]
  /\ liveError' = ConnectionError
  /\ UNCHANGED <<toolVars, page, isLiveActive, audioContextRef, inputSourceRef, processorRef,
                 born, stream, inputCtx, outputCtx, ws, sessionPromise,
                 sourceConnected, processorConnected, opened, errored, closed,
                 closeRejected, storeVars, playVars>>
  /\ UNCHANGED extVars

\* getUserMedia rejects: the catch block runs.
getUserMediaDenied(s) ==
  /\ pc[s] = "gum" /\ Live(s)
  /\ pc' = [pc EXCEPT ![s] = "caught"]
  /\ liveError' = DeviceUnavailable
  /\ UNCHANGED <<toolVars, page, isLiveActive, audioContextRef, inputSourceRef, processorRef,
                 born, stream, inputCtx, outputCtx, ws, sessionPromise,
                 sourceConnected, processorConnected, opened, errored, closed,
                 closeRejected, storeVars, playVars>>
  /\ UNCHANGED extVars

\* getUserMedia resolves but the AudioContext constructor throws (sample
\* rate not supported): the same catch block runs, the stream stays live.
audioContextThrows(s) ==
  /\ pc[s] = "gum" /\ Live(s)
  /\ pc' = [pc EXCEPT ![s] = "caught"]
  /\ stream' = [stream EXCEPT ![s] = "live"]
  /\ liveError' = DeviceUnavailable
  /\ UNCHANGED <<toolVars, page, isLiveActive, audioContextRef, inputSourceRef, processorRef,
                 born, inputCtx, outputCtx, ws, sessionPromise,
                 sourceConnected, processorConnected, opened, errored, closed,
                 closeRejected, storeVars, playVars>>
  /\ UNCHANGED extVars

\* ------------------------------------------------------------ callbacks
onopen(s) ==
  /\ ws[s] = "connecting" /\ Live(s)
  /\ ws' = [ws EXCEPT ![s] = "open"]
  /\ opened' = [opened EXCEPT ![s] = TRUE]
  /\ isLiveActive' = TRUE
  /\ inputSourceRef' = s
  /\ processorRef' = s
  /\ sourceConnected' = [sourceConnected EXCEPT ![s] = TRUE]
  /\ processorConnected' = [processorConnected EXCEPT ![s] = TRUE]
  /\ UNCHANGED <<toolVars, page, liveError, audioContextRef, pc, born, stream, inputCtx,
                 outputCtx, sessionPromise, errored, closed, closeRejected,
                 storeVars, playVars>>
  /\ UNCHANGED extVars

\* The promise returned by ai.live.connect resolves with the session: the
\* callbacks registered with sessionPromise.then run in registration order.
Reverse(q) == [i \in 1..Len(q) |-> q[Len(q) + 1 - i]]

\* Mutant of connectResolves: the waiting frames are sent newest first.
connectResolvesNewestFirst(s) ==
  /\ opened[s] /\ Live(s)
  /\ sessionPromise[s] = "pending"
  /\ sessionPromise' = [sessionPromise EXCEPT ![s] = "resolved"]
  /\ toolResponses' = [toolResponses EXCEPT ![s] = @ \o thenQueue[s]]
  /\ thenQueue' = [thenQueue EXCEPT ![s] = <<>>]
  /\ realtimeInputs' = [realtimeInputs EXCEPT ![s] = @ \o Reverse(frameQueue[s])]
  /\ frameQueue' = [frameQueue EXCEPT ![s] = <<>>]
  /\ UNCHANGED <<appVars, storeVars, playVars, handlers, pc, born, stream, inputCtx,
                 outputCtx, ws, sourceConnected, processorConnected, opened, errored,
                 closed, closeRejected>>
  /\ UNCHANGED <<captured, uiOps, notifierVars, codecVars>>

connectResolves(s) ==
  /\ opened[s] /\ Live(s)
  /\ sessionPromise[s] = "pending"
  /\ sessionPromise' = [sessionPromise EXCEPT ![s] = "resolved"]
  /\ toolResponses' = [toolResponses EXCEPT ![s] = @ \o thenQueue[s]]
  /\ thenQueue' = [thenQueue EXCEPT ![s] = <<>>]
  /\ realtimeInputs' = [realtimeInputs EXCEPT ![s] = @ \o frameQueue[s]]
  /\ frameQueue' = [frameQueue EXCEPT ![s] = <<>>]
  /\ UNCHANGED <<appVars, storeVars, playVars, handlers, pc, born, stream, inputCtx,
                 outputCtx, ws, sourceConnected, processorConnected, opened, errored,
                 closed, closeRejected>>
  /\ UNCHANGED <<captured, uiOps, notifierVars, codecVars>>

\* The promise returned by ai.live.connect rejects; no callback is called
\* and nothing in startLiveSession observes the rejection.
connectRejects(s) ==
  /\ ws[s] = "connecting" /\ Live(s)
  /\ sessionPromise[s] = "pending"
  /\ sessionPromise' = [sessionPromise EXCEPT ![s] = "rejected"]
  /\ ws' = [ws EXCEPT ![s] = "closed"]
  /\ UNCHANGED <<toolVars, appVars, storeVars, playVars, pc, born, stream, inputCtx, outputCtx,
                 sourceConnected, processorConnected, opened, errored, closed,
                 closeRejected>>
  /\ UNCHANGED extVars

\* stopAudioProcessing, as the values it leaves behind.
stopAudioProcessingStream ==
  [s \in Sessions |-> IF inputSourceRef = s /\ stream[s] = "live" THEN "stopped" ELSE stream[s]]

stopAudioProcessingSource ==
  [s \in Sessions |-> IF inputSourceRef = s THEN FALSE ELSE sourceConnected[s]]

stopAudioProcessingProcessor ==
  [s \in Sessions |-> IF processorRef = s THEN FALSE ELSE processorConnected[s]]

stopAudioProcessingContext ==
  [s \in Sessions |-> IF audioContextRef = s THEN "closed" ELSE outputCtx[s]]

\* AudioContext.close() on a closed context returns a rejected promise
\* (InvalidStateError); nothing handles it.
stopAudioProcessingRejected ==
  [s \in Sessions |-> IF audioContextRef = s /\ outputCtx[s] = "closed" THEN TRUE
                      ELSE closeRejected[s]]

\* Mutant of onclose: the callback reports the session active.
oncloseReportsActive(s) ==
  /\ ws[s] \in {"connecting", "open", "error"} /\ Live(s)
  /\ ws' = [ws EXCEPT ![s] = "closed"]
  /\ closed' = [closed EXCEPT ![s] = TRUE]
  /\ isLiveActive' = TRUE
  /\ stream' = stopAudioProcessingStream
  /\ sourceConnected' = stopAudioProcessingSource
  /\ processorConnected' = stopAudioProcessingProcessor
  /\ outputCtx' = stopAudioProcessingContext
  /\ closeRejected' = stopAudioProcessingRejected
  /\ UNCHANGED <<toolVars, page, liveError, audioContextRef, inputSourceRef, processorRef,
                 pc, born, inputCtx, sessionPromise, opened, errored,
                 storeVars, playVars>>
  /\ UNCHANGED extVars

onclose(s) ==
  /\ ws[s] \in {"connecting", "open", "error"} /\ Live(s)
  /\ ws' = [ws EXCEPT ![s] = "closed"]
  /\ closed' = [closed EXCEPT ![s] = TRUE]
  /\ isLiveActive' = FALSE
  /\ stream' = stopAudioProcessingStream
  /\ sourceConnected' = stopAudioProcessingSource
  /\ processorConnected' = stopAudioProcessingProcessor
  /\ outputCtx' = stopAudioProcessingContext
  /\ closeRejected' = stopAudioProcessingRejected
  /\ UNCHANGED <<toolVars, page, liveError, audioContextRef, inputSourceRef, processorRef,
                 pc, born, inputCtx, sessionPromise, opened, errored,
                 storeVars, playVars>>
  /\ UNCHANGED extVars

\* Mutant of onerror: the callback leaves isLiveActive as it is.
onerrorKeepsActive(s) ==
  /\ ws[s] \in {"connecting", "open"} /\ Live(s)
  /\ ws' = [ws EXCEPT ![s] = "error"]
  /\ errored' = [errored EXCEPT ![s] = TRUE]
  /\ liveError' = ConnectionError
  /\ isLiveActive' = isLiveActive
  /\ stream' = stopAudioProcessingStream
  /\ sourceConnected' = stopAudioProcessingSource
  /\ processorConnected' = stopAudioProcessingProcessor
  /\ outputCtx' = stopAudioProcessingContext
  /\ closeRejected' = stopAudioProcessingRejected
  /\ UNCHANGED <<toolVars, page, audioContextRef, inputSourceRef, processorRef,
                 pc, born, inputCtx, sessionPromise, opened, closed,
                 storeVars, playVars>>
  /\ UNCHANGED extVars


onerror(s) ==
  /\ ws[s] \in {"connecting", "open"} /\ Live(s)
  /\ ws' = [ws EXCEPT ![s] = "error"]
  /\ errored' = [errored EXCEPT ![s] = TRUE]
  /\ liveError' = ConnectionError
  /\ isLiveActive' = FALSE
  /\ stream' = stopAudioProcessingStream
  /\ sourceConnected' = stopAudioProcessingSource
  /\ processorConnected' = stopAudioProcessingProcessor
  /\ outputCtx' = stopAudioProcessingContext
  /\ closeRejected' = stopAudioProcessingRejected
  /\ UNCHANGED <<toolVars, page, audioContextRef, inputSourceRef, processorRef,
                 pc, born, inputCtx, sessionPromise, opened, closed,
                 storeVars, playVars>>
  /\ UNCHANGED extVars

\* ------------------------------------------------------------- onmessage
\* The output context's clock advances while the context runs.
advanceClock(s) ==
  /\ outputCtx[s] = "running"
  /\ currentTime[s] < MaxTime
  /\ currentTime' = [currentTime EXCEPT ![s] = @ + 1]
  /\ UNCHANGED <<appVars, storeVars, sessVars, toolVars, nextStartTime, started,
                 unhandled>>
  /\ UNCHANGED extVars

\* Mutant of startTimeOf: the segment starts at the current device time.
startTimeNow(s) == currentTime[s]

\* Mutant of startTimeOf: the two times are added.
startTimeSum(s) == currentTime[s] + nextStartTime[s]

\* const startTime = Math.max(now, nextStartTime).
startTimeOf(s) == Max(currentTime[s], nextStartTime[s])

\* Mutant of onmessageAudio: the decoder drops a trailing odd byte.
onmessageAudioTruncates(s, bytes) ==
  /\ ws[s] = "open" /\ Live(s)
  /\ Len(started[s]) < MaxSegments
  /\ started' = [started EXCEPT ![s] = Append(@, <<startTimeOf(s), bytes \div 2>>)]
  /\ nextStartTime' = [nextStartTime EXCEPT ![s] = startTimeOf(s) + bytes \div 2]
  /\ UNCHANGED unhandled
  /\ UNCHANGED <<appVars, storeVars, sessVars, toolVars, currentTime>>
  /\ UNCHANGED extVars

\* onmessage for a message whose inlineData decodes to `bytes` bytes (the
\* remote end sends audio and tool calls in separate messages).  An odd byte
\* count makes `new Int16Array(bytes.buffer)` throw a RangeError, which ends
\* the async callback with a rejected promise.
onmessageAudio(s, bytes) ==
  /\ ws[s] = "open" /\ Live(s)
  /\ Len(started[s]) < MaxSegments
  /\ IF bytes % 2 = 1
     THEN /\ unhandled' = [unhandled EXCEPT ![s] = TRUE]
          /\ UNCHANGED <<started, nextStartTime>>
     ELSE /\ started' = [started EXCEPT ![s] = Append(@, <<startTimeOf(s), bytes \div 2>>)]
          /\ nextStartTime' = [nextStartTime EXCEPT ![s] = startTimeOf(s) + bytes \div 2]
          /\ UNCHANGED unhandled
  /\ UNCHANGED <<appVars, storeVars, sessVars, toolVars, currentTime>>
  /\ UNCHANGED extVars

\* An onmessage call in the tool-call loop: `k` is the call whose store
\* operation (stage "op") or loadTasks (stage "load") is awaited, `ran` the
\* calls whose store operation was invoked, `failed` those whose store
\* operation threw, `result` the result so far.
Handler(s, calls, k, stage, result, ran, failed) ==
  [s |-> s, calls |-> calls, k |-> k, stage |-> stage, result |-> result, ran |-> ran,
   failed |-> failed]

stageAt(calls, k) == IF k > Len(calls) THEN "done" ELSE "op"

\* onmessage for a toolCall message: the loop runs to its first await.
onmessageToolCall(s, fcs) ==
  /\ ws[s] = "open" /\ Live(s)
  /\ Len(handlers) < MaxMessages
  /\ callCount(handlers) + Len(fcs) <= MaxCalls
  /\ LET calls == WithIds(Len(handlers) + 1, fcs)
         k == nextAwait(calls, 1)
     IN /\ handlers' = Append(handlers, Handler(s, calls, k, stageAt(calls, k), <<>>, {}, {}))
        /\ sendToolResponses(s, unknownResponses(calls, 1, k))
  /\ UNCHANGED <<appVars, storeVars, sessVars, playVars>>
  /\ UNCHANGED extVars

Awaiting(h, stage, name) ==
  /\ h \in 1..Len(handlers)
  /\ Live(handlers[h].s)
  /\ handlers[h].stage = stage
  /\ handlers[h].calls[handlers[h].k].name = name

\* The end of iteration k: the response of call k is handed to
\* sessionPromise.then and the loop runs on to its next await.
finishCall(h, result, threw) ==
  LET H == handlers[h]
      k == nextAwait(H.calls, H.k + 1)
  IN /\ handlers' = [handlers EXCEPT ![h] =
                       Handler(H.s, H.calls, k, stageAt(H.calls, k), <<>>,
                               H.ran \cup {H.k},
                               IF threw THEN H.failed \cup {H.k} ELSE H.failed)]
     /\ sendToolResponses(H.s, <<functionResponse(H.calls[H.k], result)>>
                                 \o unknownResponses(H.calls, H.k + 1, k))

\* The store operation of call k succeeded: `await loadTasks()` is next.
awaitLoadTasks(h, result) ==
  /\ handlers' = [handlers EXCEPT ![h].stage = "load", ![h].result = <<result>>,
                                  ![h].ran = @ \cup {handlers[h].k}]
  /\ UNCHANGED <<thenQueue, toolResponses>>
  /\ UNCHANGED extVars

\* Mutant of toolCallFailed: no try/catch around the switch, the exception
\* ends the onmessage call.
toolCallEscapes(h, message) ==
  /\ handlers' = [handlers EXCEPT ![h].stage = "thrown",
                                  ![h].ran = @ \cup {handlers[h].k},
                                  ![h].failed = @ \cup {handlers[h].k}]
  /\ unhandled' = [unhandled EXCEPT ![handlers[h].s] = TRUE]
  /\ UNCHANGED <<appVars, storeVars, sessVars, nextStartTime, currentTime, started,
                 thenQueue, toolResponses>>
  /\ UNCHANGED extVars

\* catch (e) { result = { error: e.message } } around the switch.
toolCallFailed(h, message) ==
  /\ finishCall(h, ErrorResult(message), TRUE)
  /\ UNCHANGED <<appVars, storeVars, sessVars, playVars>>

\* Mutant of createTask: an absent priority defaults to Low.
createTaskDefaultLow(h) ==
  /\ Awaiting(h, "op", "create_task")
  /\ LET fc == handlers[h].calls[handlers[h].k]
         newTask == createTaskNew(localStorage, fc.args.title,
                                  IF fc.args.priority = "" THEN "Low"
                                  ELSE fc.args.priority)
     IN /\ localStorage' = <<newTask>> \o localStorage
        /\ awaitLoadTasks(h, CreatedResult(newTask))
  /\ UNCHANGED <<appVars, tasks, mountLoad, sessVars, playVars>>
  /\ UNCHANGED extVars

createTask(h) ==
  /\ Awaiting(h, "op", "create_task")
  /\ LET fc == handlers[h].calls[handlers[h].k]
         newTask == createTaskNew(localStorage, fc.args.title,
                                  IF fc.args.priority = "" THEN "Medium"
                                  ELSE fc.args.priority)
     IN /\ localStorage' = <<newTask>> \o localStorage
        /\ awaitLoadTasks(h, CreatedResult(newTask))
  /\ UNCHANGED <<appVars, tasks, mountLoad, sessVars, playVars>>
  /\ UNCHANGED extVars

getTasks(h) ==
  /\ Awaiting(h, "op", "get_tasks")
  /\ finishCall(h, TasksResult(localStorage), FALSE)
  /\ UNCHANGED <<appVars, storeVars, sessVars, playVars>>
  /\ UNCHANGED extVars

\* Mutant of updateTask: an id that is not stored is acknowledged.
updateTaskAcknowledgesMissing(h) ==
  /\ Awaiting(h, "op", "update_task_status")
  /\ LET fc == handlers[h].calls[handlers[h].k]
     IN IF findIndex(localStorage, fc.args.taskId) = 0
        THEN /\ finishCall(h, SuccessResult, FALSE)
             /\ UNCHANGED <<appVars, storeVars, sessVars, playVars>>
        ELSE /\ localStorage' = updateTaskList(localStorage, fc.args.taskId,
                                               fc.args.completed)
             /\ awaitLoadTasks(h, SuccessResult)
             /\ UNCHANGED <<appVars, tasks, mountLoad, sessVars, playVars>>
  /\ UNCHANGED extVars

updateTask(h) ==
  /\ Awaiting(h, "op", "update_task_status")
  /\ LET fc == handlers[h].calls[handlers[h].k]
     IN IF findIndex(localStorage, fc.args.taskId) = 0
        THEN toolCallFailed(h, NotFound)
        ELSE /\ localStorage' = updateTaskList(localStorage, fc.args.taskId,
                                               fc.args.completed)
             /\ awaitLoadTasks(h, SuccessResult)
             /\ UNCHANGED <<appVars, tasks, mountLoad, sessVars, playVars>>
  /\ UNCHANGED extVars

deleteTask(h) ==
  /\ Awaiting(h, "op", "delete_task")
  /\ localStorage' = deleteTaskList(localStorage, handlers[h].calls[handlers[h].k].args.taskId)
  /\ awaitLoadTasks(h, SuccessResult)
  /\ UNCHANGED <<appVars, tasks, mountLoad, sessVars, playVars>>
  /\ UNCHANGED extVars

deleteCompletedTasks(h) ==
  /\ Awaiting(h, "op", "delete_completed_tasks")
  /\ localStorage' = deleteCompletedList(localStorage)
  /\ awaitLoadTasks(h, CountResult(Len(localStorage) - Len(deleteCompletedList(localStorage))))
  /\ UNCHANGED <<appVars, tasks, mountLoad, sessVars, playVars>>
  /\ UNCHANGED extVars

\* `await loadTasks()` inside the loop returns: setTasks(data), then the
\* response of call k is sent.
toolLoadTasks(h) ==
  /\ h \in 1..Len(handlers)
  /\ Live(handlers[h].s)
  /\ handlers[h].stage = "load"
  /\ tasks' = localStorage
  /\ finishCall(h, handlers[h].result[1], FALSE)
  /\ UNCHANGED <<appVars, localStorage, mountLoad, sessVars, playVars>>
  /\ UNCHANGED extVars

\* ------------------------------------------------------- stopLiveSession
\* The toggle calls stopLiveSession while isLiveActive is true:
\* setIsLiveActive(false), stopAudioProcessing(), window.location.reload().
\* The reload unloads the document: every stream track of the page ends,
\* every AudioContext is closed, every connection is closed, and a fresh App
\* instance is mounted.
stopLiveSession ==
  /\ toggleStops
  /\ page < MaxReloads
  /\ page' = page + 1
  /\ isLiveActive' = FALSE
  /\ liveError' = NoError
  /\ audioContextRef' = 0
  /\ inputSourceRef' = 0
  /\ processorRef' = 0
  /\ tasks' = <<>>
  /\ mountLoad' = TRUE
  /\ stream' = [s \in Sessions |-> IF stream[s] = "live" THEN "stopped" ELSE stream[s]]
  /\ inputCtx' = [s \in Sessions |-> IF inputCtx[s] = "running" THEN "closed" ELSE inputCtx[s]]
  /\ outputCtx' = [s \in Sessions |-> IF outputCtx[s] = "running" THEN "closed" ELSE outputCtx[s]]
  /\ ws' = [s \in Sessions |-> IF ws[s] = "none" THEN "none" ELSE "closed"]
  /\ sourceConnected' = [s \in Sessions |-> FALSE]
  /\ processorConnected' = [s \in Sessions |-> FALSE]
  /\ closeRejected' = stopAudioProcessingRejected
  /\ uiOps' = <<>>
  /\ notifiedRef' = [id \in TaskIds |-> [approaching |-> FALSE, overdue |-> FALSE]]
  /\ toasts' = <<>>
  /\ UNCHANGED <<localStorage, pc, born, sessionPromise, opened, errored, closed,
                 playVars, toolVars, captureVars, now, codecVars>>

\* -------------------------------------------------------- task handlers
\* A DjangoAPI call a task handler has made and whose timers still run:
\* `snapshot` is the `tasks` of the render the handler closed over.
UiOp(kind, id, updates, snapshot) ==
  [kind |-> kind, id |-> id, updates |-> updates, snapshot |-> snapshot]

\* A call that has returned to its handler, and the handler has finished.
Done == UiOp("done", 0, <<>>, <<>>)

DueDates == {4, 30}

\* handleSave with no editingTask: DjangoAPI.createTask is called.
handleSaveNew(due) ==
  /\ Len(uiOps) < MaxUiOps
  /\ uiOps' = Append(uiOps, UiOp("create", 0,
                                 [title |-> "Walk dog", priority |-> "Medium",
                                  due_date |-> due], tasks))
  /\ UNCHANGED <<appVars, storeVars, sessVars, playVars, toolVars, captureVars,
                 notifierVars, codecVars>>

\* Mutant of handleSaveCreated: the new list is built from the list read
\* when the handler was called.
handleSaveCreatedFromSnapshot(i) ==
  /\ i \in 1..Len(uiOps) /\ uiOps[i].kind = "create"
  /\ LET data == uiOps[i].updates
         created == Task(IF Len(localStorage) > 0 THEN MaxId(localStorage) + 1 ELSE 1,
                         data.title, data.priority, FALSE, "none", data.due_date)
     IN /\ localStorage' = <<created>> \o uiOps[i].snapshot
        /\ tasks' = <<created>> \o uiOps[i].snapshot
  /\ uiOps' = [uiOps EXCEPT ![i] = Done]
  /\ UNCHANGED <<appVars, mountLoad, sessVars, playVars, toolVars, captureVars,
                 notifierVars, codecVars>>

\* createTask returns: setTasks([created, ...tasks]).
handleSaveCreated(i) ==
  /\ i \in 1..Len(uiOps) /\ uiOps[i].kind = "create"
  /\ LET data == uiOps[i].updates
         created == Task(IF Len(localStorage) > 0 THEN MaxId(localStorage) + 1 ELSE 1,
                         data.title, data.priority, FALSE, "none", data.due_date)
     IN /\ localStorage' = <<created>> \o localStorage
        /\ tasks' = <<created>> \o uiOps[i].snapshot
  /\ uiOps' = [uiOps EXCEPT ![i] = Done]
  /\ UNCHANGED <<appVars, mountLoad, sessVars, playVars, toolVars, captureVars,
                 notifierVars, codecVars>>

\* handleSave with editingTask = tasks[k] and a new due date in the form:
\* DjangoAPI.updateTask(editingTask.id, data) is called.
handleSaveEdit(k, due) ==
  /\ Len(uiOps) < MaxUiOps
  /\ k \in 1..Len(tasks)
  /\ uiOps' = Append(uiOps, UiOp("edit", tasks[k].id,
                                 [title |-> tasks[k].title,
                                  priority |-> tasks[k].priority,
                                  due_date |-> due], tasks))
  /\ UNCHANGED <<appVars, storeVars, sessVars, playVars, toolVars, captureVars,
                 notifierVars, codecVars>>

\* updateTask returns: setTasks(tasks.map(t => t.id === updated.id ?
\* updated : t)); or it throws and handleSave ends there.
handleSaveUpdated(i) ==
  /\ i \in 1..Len(uiOps) /\ uiOps[i].kind = "edit"
  /\ IF findIndex(localStorage, uiOps[i].id) = 0
     THEN UNCHANGED <<localStorage, tasks>>
     ELSE LET stored == updateTaskWith(localStorage, uiOps[i].id, uiOps[i].updates)
              updated == stored[findIndex(localStorage, uiOps[i].id)]
              snapshot == uiOps[i].snapshot
          IN /\ localStorage' = stored
             /\ tasks' = [j \in 1..Len(snapshot) |->
                            IF snapshot[j].id = updated.id THEN updated
                            ELSE snapshot[j]]
  /\ uiOps' = [uiOps EXCEPT ![i] = Done]
  /\ UNCHANGED <<appVars, mountLoad, sessVars, playVars, toolVars, captureVars,
                 notifierVars, codecVars>>

\* handleToggle(task.id, task.completed) for tasks[k]: setTasks at once,
\* then DjangoAPI.updateTask is called.
handleToggle(k) ==
  /\ Len(uiOps) < MaxUiOps
  /\ k \in 1..Len(tasks)
  /\ LET updates == [completed |-> ~tasks[k].completed,
                     completed_at |-> IF ~tasks[k].completed THEN "stamped" ELSE "none"]
     IN /\ tasks' = [j \in 1..Len(tasks) |->
                       IF tasks[j].id = tasks[k].id
                       THEN [f \in DOMAIN tasks[j] |->
                               IF f \in DOMAIN updates THEN updates[f] ELSE tasks[j][f]]
                       ELSE tasks[j]]
        /\ uiOps' = Append(uiOps, UiOp("toggle", tasks[k].id, updates, <<>>))
  /\ UNCHANGED <<appVars, localStorage, mountLoad, sessVars, playVars, toolVars,
                 captureVars, notifierVars, codecVars>>

handleToggleStored(i) ==
  /\ i \in 1..Len(uiOps) /\ uiOps[i].kind = "toggle"
  /\ localStorage' = IF findIndex(localStorage, uiOps[i].id) = 0 THEN localStorage
                     ELSE updateTaskWith(localStorage, uiOps[i].id, uiOps[i].updates)
  /\ uiOps' = [uiOps EXCEPT ![i] = Done]
  /\ UNCHANGED <<appVars, tasks, mountLoad, sessVars, playVars, toolVars,
                 captureVars, notifierVars, codecVars>>

\* handleDelete(task.id) for tasks[k]: setTasks(prev => prev.filter(..)),
\* then DjangoAPI.deleteTask is called.
handleDelete(k) ==
  /\ Len(uiOps) < MaxUiOps
  /\ k \in 1..Len(tasks)
  /\ tasks' = deleteTaskList(tasks, tasks[k].id)
  /\ uiOps' = Append(uiOps, UiOp("delete", tasks[k].id, <<>>, <<>>))
  /\ UNCHANGED <<appVars, localStorage, mountLoad, sessVars, playVars, toolVars,
                 captureVars, notifierVars, codecVars>>

handleDeleteStored(i) ==
  /\ i \in 1..Len(uiOps) /\ uiOps[i].kind = "delete"
  /\ localStorage' = deleteTaskList(localStorage, uiOps[i].id)
  /\ uiOps' = [uiOps EXCEPT ![i] = Done]
  /\ UNCHANGED <<appVars, tasks, mountLoad, sessVars, playVars, toolVars,
                 captureVars, notifierVars, codecVars>>

\* handleClearCompleted, confirmed: DjangoAPI.deleteCompletedTasks is called.
handleClearCompleted ==
  /\ Len(uiOps) < MaxUiOps
  /\ uiOps' = Append(uiOps, UiOp("clear", 0, <<>>, <<>>))
  /\ UNCHANGED <<appVars, storeVars, sessVars, playVars, toolVars, captureVars,
                 notifierVars, codecVars>>

\* deleteCompletedTasks returns: loadTasks() is awaited.
handleClearCompletedStored(i) ==
  /\ i \in 1..Len(uiOps) /\ uiOps[i].kind = "clear"
  /\ localStorage' = deleteCompletedList(localStorage)
  /\ uiOps' = [uiOps EXCEPT ![i].kind = "reload"]
  /\ UNCHANGED <<appVars, tasks, mountLoad, sessVars, playVars, toolVars,
                 captureVars, notifierVars, codecVars>>

handleClearCompletedLoaded(i) ==
  /\ i \in 1..Len(uiOps) /\ uiOps[i].kind = "reload"
  /\ tasks' = localStorage
  /\ uiOps' = [uiOps EXCEPT ![i] = Done]
  /\ UNCHANGED <<appVars, localStorage, mountLoad, sessVars, playVars, toolVars,
                 captureVars, notifierVars, codecVars>>

\* ------------------------------------------------------- deadline notifier
ApproachWindow == 15

\* The body of tasksRef.current.forEach for tasks k.. of ts at minute t:
\* the flags and the toasts it leaves.
RECURSIVE checkDeadlines(_, _, _, _, _)
checkDeadlines(ts, k, t, ref, shown) ==
  IF k > Len(ts) THEN [ref |-> ref, toasts |-> shown]
  ELSE IF ts[k].completed \/ ts[k].due_date = 0
  THEN checkDeadlines(ts, k + 1, t, ref, shown)
  ELSE LET id == ts[k].id
           diffMins == ts[k].due_date - t
           warn == diffMins > 0 /\ diffMins <= ApproachWindow /\ ~ref[id].approaching
           late == diffMins <= 0 /\ ~ref[id].overdue
       IN checkDeadlines(ts, k + 1, t,
            [ref EXCEPT ![id] =
               [approaching |-> IF warn \/ late THEN TRUE ELSE @.approaching,
                overdue |-> IF late THEN TRUE ELSE @.overdue]],
            shown \o (IF warn THEN << <<"warning", id>> >> ELSE <<>>)
                  \o (IF late THEN << <<"error", id>> >> ELSE <<>>))

\* The interval callback, one minute after the last one that mattered.
notifierTick ==
  /\ now < MaxNow
  /\ now' = now + 1
  /\ LET r == checkDeadlines(tasks, 1, now + 1, notifiedRef, toasts)
     IN /\ notifiedRef' = r.ref
        /\ toasts' = r.toasts
  /\ UNCHANGED <<appVars, storeVars, sessVars, playVars, toolVars, captureVars,
                 uiOps, codecVars>>

\* ------------------------------------------------------ onaudioprocess
\* processor.onaudioprocess: the processor delivers a buffer while it is
\* wired between the stream source and the destination of a running
\* context.  The frame (numbered in capture order) is encoded and its send
\* is registered with sessionPromise.then: it runs at once on a resolved
\* promise, waits on a pending one and never runs on a rejected one.
onaudioprocess(s) ==
  /\ Live(s) /\ opened[s]
  /\ sourceConnected[s] /\ processorConnected[s]
  /\ inputCtx[s] = "running"
  /\ captured[s] < MaxFrames
  /\ captured' = [captured EXCEPT ![s] = @ + 1]
  /\ realtimeInputs' = [realtimeInputs EXCEPT ![s] =
                          IF sessionPromise[s] = "resolved"
                          THEN Append(@, captured[s] + 1) ELSE @]
  /\ frameQueue' = [frameQueue EXCEPT ![s] =
                      IF sessionPromise[s] = "pending"
                      THEN Append(@, captured[s] + 1) ELSE @]
  /\ UNCHANGED <<appVars, storeVars, sessVars, playVars, toolVars, uiOps,
                 notifierVars, codecVars>>

\* ------------------------------------------------------------ the codec
\* Samples are Float32 numbers; they are counted in units of 1 / FloatScale,
\* half a quantization step, which every Float32 in [-1, 1] used here is a
\* whole multiple of.
PositiveScale == 32767
NegativeScale == 32768
FloatScale == 2 * NegativeScale

\* The samples tried: every SampleStride-th unit of [-1, 1], the ends of
\* the range, their odd neighbours and two values outside it.
Samples ==
  { n \in (-FloatScale)..FloatScale : n % SampleStride = 0 }
    \cup {-FloatScale - 2, -FloatScale, 1 - FloatScale, FloatScale - 1,
          FloatScale, FloatScale + 2}

Min(a, b) == IF a <= b THEN a ELSE b

\* Storing a number into an Int16Array: the fraction is cut off (toward
\* zero), then the value wraps to 16 bits.  a / b with b > 0.
Truncate(a, b) ==
  IF a >= 0 \/ a % b = 0 THEN a \div b ELSE (a \div b) + 1

ToInt16(v) == ((v + NegativeScale) % (2 * NegativeScale)) - NegativeScale

\* Mutant of float32To16BitPCM: negative samples are floored.
float32To16BitPCMFloors(x) ==
  LET s == Max(-FloatScale, Min(FloatScale, x))
  IN ToInt16(IF s < 0 THEN (s * NegativeScale) \div FloatScale
             ELSE Truncate(s * PositiveScale, FloatScale))

\* float32To16BitPCM for one sample: s = max(-1, min(1, x));
\* int16 = s < 0 ? s * 0x8000 : s * 0x7FFF.
float32To16BitPCM(x) ==
  LET s == Max(-FloatScale, Min(FloatScale, x))
  IN ToInt16(IF s < 0 THEN Truncate(s * NegativeScale, FloatScale)
             ELSE Truncate(s * PositiveScale, FloatScale))

\* int16.buffer as bytes (little-endian).
Int16Bytes(v) ==
  LET u == v % (2 * NegativeScale) IN <<u % 256, u \div 256>>

\* arrayBufferToBase64 of two bytes: the three sextets btoa writes before
\* its one "=".
arrayBufferToBase64(bytes) ==
  << bytes[1] \div 4,
     (bytes[1] % 4) * 16 + bytes[2] \div 16,
     (bytes[2] % 16) * 4 >>

\* atob and the Uint8Array copy of base64ToFloat32Array.
Base64Bytes(sextets) ==
  << sextets[1] * 4 + sextets[2] \div 16,
     (sextets[2] % 16) * 16 + sextets[3] \div 4 >>

\* new Int16Array(bytes.buffer)[0].
BytesInt16(bytes) ==
  LET u == bytes[1] + 256 * bytes[2]
  IN IF u >= NegativeScale THEN u - 2 * NegativeScale ELSE u

\* base64ToFloat32Array for one sample: int16 / 32768.0, in units of
\* 1 / FloatScale.
base64ToFloat32Array(sextets) ==
  (BytesInt16(Base64Bytes(sextets)) * FloatScale) \div NegativeScale

\* processor.onaudioprocess encodes the sample.
encodeSample ==
  /\ int16 = <<>>
  /\ int16' = <<float32To16BitPCM(float32)>>
  /\ UNCHANGED <<appVars, storeVars, sessVars, playVars, toolVars, captureVars,
                 uiOps, notifierVars, float32, base64, decoded>>

encodeBase64 ==
  /\ int16 # <<>> /\ base64 = <<>>
  /\ base64' = arrayBufferToBase64(Int16Bytes(int16[1]))
  /\ UNCHANGED <<appVars, storeVars, sessVars, playVars, toolVars, captureVars,
                 uiOps, notifierVars, float32, int16, decoded>>

\* onmessage decodes the chunk.
decodeSample ==
  /\ base64 # <<>> /\ decoded = <<>>
  /\ decoded' = <<base64ToFloat32Array(base64)>>
  /\ UNCHANGED <<appVars, storeVars, sessVars, playVars, toolVars, captureVars,
                 uiOps, notifierVars, float32, int16, base64>>

\* ---------------------------------------------------------- specification
Lifecycle(s) ==
  \/ startLiveSession(s)
  \/ getUserMediaGranted(s)
  \/ getUserMediaDenied(s)
  \/ audioContextThrows(s)
  \/ onopen(s)
  \/ connectResolves(s)
  \/ connectRejects(s)
  \/ onclose(s)
  \/ onerror(s)

Next ==
  \/ loadTasks
  \/ stopLiveSession
  \/ \E s \in Sessions : Lifecycle(s)

Spec == Init /\ [][Next]_vars

\* Playback: one session, its clock and its audio messages.
Playback(s) ==
  \/ advanceClock(s)
  \/ \E bytes \in 1..MaxBytes : onmessageAudio(s, bytes)

NextPlayback ==
  \/ loadTasks
  \/ stopLiveSession
  \/ \E s \in {1} : Lifecycle(s) \/ Playback(s)

SpecPlayback == Init /\ [][NextPlayback]_vars

\* Tool dispatch: one session and its toolCall messages.
ToolCall(h) ==
  \/ createTask(h)
  \/ getTasks(h)
  \/ updateTask(h)
  \/ toolLoadTasks(h)

NextTools ==
  \/ loadTasks
  \/ stopLiveSession
  \/ \E s \in {1} : Lifecycle(s) \/ \E fcs \in ToolCalls(DispatchCalls) : onmessageToolCall(s, fcs)
  \/ \E h \in 1..MaxMessages : ToolCall(h)

SpecTools == Init /\ [][NextTools]_vars

\* Store operations: one session and the toolCall messages that write the
\* stored list.
StoreCall(h) ==
  \/ createTask(h)
  \/ updateTask(h)
  \/ deleteTask(h)
  \/ deleteCompletedTasks(h)
  \/ toolLoadTasks(h)

NextStore ==
  \/ loadTasks
  \/ stopLiveSession
  \/ \E s \in {1} : Lifecycle(s) \/ \E fcs \in ToolCalls(StoreCalls) : onmessageToolCall(s, fcs)
  \/ \E h \in 1..MaxMessages : StoreCall(h)

SpecStore == Init /\ [][NextStore]_vars

\* The codec: one sample through encode, base64 and decode.
InitCodec ==
  /\ InitApp
  /\ float32 \in Samples

NextCodec ==
  \/ encodeSample
  \/ encodeBase64
  \/ decodeSample

SpecCodec == InitCodec /\ [][NextCodec]_vars

\* Capture: one session and the buffers its processor delivers.
NextCapture ==
  \/ loadTasks
  \/ stopLiveSession
  \/ \E s \in {1} : Lifecycle(s) \/ onaudioprocess(s)

SpecCapture == Init /\ [][NextCapture]_vars

\* The notifier: the clock, the list and the edits of due dates.
EditHandler(k) ==
  \/ \E due \in DueDates : handleSaveEdit(k, due)
  \/ handleToggle(k)

EditHandlerReturn(i) ==
  \/ handleSaveUpdated(i)
  \/ handleToggleStored(i)

NextNotifier ==
  \/ loadTasks
  \/ notifierTick
  \/ \E k \in 1..Cardinality(TaskIds) : EditHandler(k)
  \/ \E i \in 1..MaxUiOps : EditHandlerReturn(i)

SpecNotifier == Init /\ [][NextNotifier]_vars

\* Task handlers: the handlers of the task list next to one session's
\* tool calls.
TaskHandler(k) ==
  \/ handleSaveNew(30)
  \/ handleClearCompleted
  \/ handleDelete(k)

TaskHandlerReturn(i) ==
  \/ handleSaveCreated(i)
  \/ handleDeleteStored(i)
  \/ handleClearCompletedStored(i)
  \/ handleClearCompletedLoaded(i)

NextUi ==
  \/ loadTasks
  \/ \E s \in {1} :
       \/ startLiveSession(s)
       \/ getUserMediaGranted(s)
       \/ onopen(s)
       \/ \E fc \in UiCalls : onmessageToolCall(s, <<fc>>)
  \/ \E h \in 1..MaxMessages : createTask(h) \/ updateTask(h) \/ toolLoadTasks(h)
  \/ \E k \in 1..Cardinality(TaskIds) : TaskHandler(k)
  \/ \E i \in 1..MaxUiOps : TaskHandlerReturn(i)

SpecUi == Init /\ [][NextUi]_vars

\* ------------------------------------------------------- session states
\* The states of the session design, read off the program's variables.
Failed(s) == pc[s] = "caught" \/ errored[s]

Closed(s) == ~Failed(s) /\ (closed[s] \/ Unloaded(s))

Active(s) == ~Failed(s) /\ ~Closed(s) /\ opened[s]

SessionState(s) ==
  IF Failed(s) THEN "Failed"
  ELSE IF Closed(s) THEN "Closed"
  ELSE IF opened[s] THEN "Active"
  ELSE IF pc[s] = "connect" THEN "Connecting"
  ELSE "Idle"

\* ---------------------------------------------------------------- claims

\* C1 (SpecPlayback): within a session every scheduled segment starts at or
\* after the start of the segment before it plus that segment's duration,
\* and nextStartTime never decreases.
NoOverlap ==
  \A s \in Sessions : \A i \in 1..(Len(started[s]) - 1) :
    started[s][i + 1][1] >= started[s][i][1] + started[s][i][2]

NextStartTimeMonotone ==
  \A s \in Sessions : nextStartTime'[s] >= nextStartTime[s]

C1_SchedulerNonOverlap == [](NoOverlap) /\ [][NextStartTimeMonotone]_vars

\* Three segments: the second back to back with the first, the third after a
\* gap left by the clock.
C1_Witness ==
  /\ Len(started[1]) = 3
  /\ started[1][2][1] = started[1][1][1] + started[1][1][2]
  /\ started[1][3][1] > started[1][2][1] + started[1][2][2]

\* The sendToolResponse calls made for call i of handler h.
ResponsesTo(h, i) ==
  { j \in 1..Len(toolResponses[handlers[h].s]) :
      toolResponses[handlers[h].s][j].id = handlers[h].calls[i].id }

Settled(h) ==
  handlers[h].stage = "done" /\ sessionPromise[handlers[h].s] = "resolved"

KnownCalls(h) ==
  { i \in 1..Len(handlers[h].calls) : handlers[h].calls[i].name \in ToolNames }

\* C2 (SpecTools): no call is ever answered twice, every response carries
\* the id and name of a call of its message and holds one result, and once
\* the loop of a message of N calls has ended and the session handle has
\* resolved exactly N responses have been sent, one per call.
C2_OneResponsePerCall ==
  \A h \in 1..Len(handlers) :
    LET H == handlers[h]
        sent == toolResponses[H.s]
        mine == { j \in 1..Len(sent) : sent[j].id \in { CallId(h, i) : i \in 1..MaxCalls } }
    IN /\ \A i \in 1..Len(H.calls) : Cardinality(ResponsesTo(h, i)) <= 1
       /\ \A j \in mine : \E i \in 1..Len(H.calls) :
            sent[j].id = H.calls[i].id /\ sent[j].name = H.calls[i].name
       /\ Settled(h) =>
            /\ Cardinality(mine) = Len(H.calls)
            /\ \A i \in 1..Len(H.calls) : Cardinality(ResponsesTo(h, i)) = 1

\* A settled message of two calls, one of an unknown name and one that
\* failed in the store, with its two responses sent.
C2_Witness ==
  \E h \in 1..Len(handlers) :
    /\ Settled(h)
    /\ Len(handlers[h].calls) = 2
    /\ KnownCalls(h) # 1..2
    /\ handlers[h].failed # {}
    /\ \A i \in 1..2 : Cardinality(ResponsesTo(h, i)) = 1

\* C3 (SpecTools): a store failure never ends the onmessage call; the
\* failing call's own result is the error, and every call of the batch that
\* names an operation is run against the store and answered with a result
\* of its own (an error only if its own operation failed).
C3_FailureIsolated ==
  \A h \in 1..Len(handlers) :
    LET H == handlers[h]
        sent == toolResponses[H.s]
    IN /\ ~unhandled[H.s]
       /\ H.stage \in {"op", "load", "done"}
       /\ H.stage = "done" => H.ran = KnownCalls(h)
       /\ Settled(h) =>
            \A i \in KnownCalls(h) :
              /\ ResponsesTo(h, i) # {}
              /\ \A j \in ResponsesTo(h, i) :
                   IF i \in H.failed
                   THEN sent[j].result = ErrorResult(NotFound)
                   ELSE sent[j].result.error = ""

\* A settled message whose first call failed in the store and whose later
\* call ran and was answered with a success.
C3_Witness ==
  \E h \in 1..Len(handlers) :
    /\ Settled(h)
    /\ 1 \in handlers[h].failed
    /\ \E i \in KnownCalls(h) \ handlers[h].failed :
         /\ i > 1
         /\ i \in handlers[h].ran
         /\ \E j \in ResponsesTo(h, i) : toolResponses[handlers[h].s][j].result.success

\* C4 (Spec), as claimed: a session ended by stop, by the error callback or
\* by the close callback holds no live microphone stream, no connected
\* processor and no running audio context.
Ended(s) == errored[s] \/ closed[s] \/ Unloaded(s)

C4_ReleasedOnEveryExit ==
  \A s \in Sessions :
    Ended(s) =>
      /\ stream[s] # "live"
      /\ ~processorConnected[s]
      /\ inputCtx[s] # "running"
      /\ outputCtx[s] # "running"

\* C5 (Spec), as claimed: at most one session is Active with its microphone
\* stream live and its transport open.
C5_SingleActiveSession ==
  Cardinality({ s \in Sessions : Active(s) /\ ws[s] = "open" /\ stream[s] = "live" }) <= 1

\* C6 (Spec): a stop request is only ever made while a session is Active
\* (so none is made, and nothing changes, while Idle), and it leaves every
\* session that was Active in Closed with its stream stopped, its processor
\* disconnected, its contexts closed and its connection closed.
StopRequest == page' # page

C6_StopReachesClosed ==
  [][StopRequest =>
       /\ \E s \in Sessions : Active(s)
       /\ \A s \in Sessions :
            Active(s) =>
              /\ SessionState(s)' = "Closed"
              /\ stream'[s] # "live"
              /\ ~processorConnected'[s] /\ ~sourceConnected'[s]
              /\ inputCtx'[s] = "closed" /\ outputCtx'[s] = "closed"
              /\ ws'[s] = "closed"]_vars

\* A session that was opened and then stopped: Closed, nothing held.
C6_Witness ==
  \E s \in Sessions :
    /\ opened[s] /\ Unloaded(s) /\ ~closed[s] /\ ~errored[s]
    /\ SessionState(s) = "Closed"
    /\ stream[s] = "stopped" /\ outputCtx[s] = "closed"

\* C7 (Spec): when getUserMedia rejects, the step sets liveError to the
\* microphone message and does not report the session active; the session
\* is Failed, connect is never called for it and it is never opened.
Denied(s) == pc[s] = "caught" /\ stream[s] = "none"

DeniedNeverConnects ==
  \A s \in Sessions :
    Denied(s) =>
      /\ SessionState(s) = "Failed"
      /\ ws[s] = "none" /\ sessionPromise[s] = "none"
      /\ ~opened[s]

DenialShown ==
  \A s \in Sessions :
    (~Denied(s) /\ Denied(s)') =>
      /\ liveError' = DeviceUnavailable
      /\ isLiveActive' = isLiveActive

C7_DeviceDenied == [](DeniedNeverConnects) /\ [][DenialShown]_vars

C7_Witness ==
  \E s \in Sessions : Denied(s) /\ liveError = DeviceUnavailable /\ ~isLiveActive

\* C8 (Spec), as claimed: when the connect promise rejects, the step shows
\* the connection message, and the session is Failed and was never opened.
C8_ConnectFailureShown ==
  [][\A s \in Sessions :
       (sessionPromise[s] = "pending" /\ sessionPromise'[s] = "rejected") =>
         /\ liveError' = ConnectionError
         /\ SessionState(s)' = "Failed"
         /\ ~opened'[s]]_vars

\* C9 (Spec): once a session is Failed or Closed it keeps that state in
\* every later step, and no open, close or error callback of that session
\* sets isLiveActive.
Terminal(s) == SessionState(s) \in {"Failed", "Closed"}

C9_TerminalStatesStay ==
  [][\A s \in Sessions :
       Terminal(s) =>
         /\ SessionState(s)' = SessionState(s)
         /\ (onopen(s) \/ onclose(s) \/ onerror(s)) => ~isLiveActive']_vars

\* A Failed session whose close callback has run after its error callback.
C9_Witness ==
  \E s \in Sessions :
    errored[s] /\ closed[s] /\ SessionState(s) = "Failed" /\ ~isLiveActive

\* C10 (Spec), as claimed: a close or error callback of a session whose
\* teardown has already run changes nothing that teardown acts on and
\* raises no error.
C10_TeardownIdempotent ==
  [][\A s \in Sessions :
       ((errored[s] \/ closed[s]) /\ (onclose(s) \/ onerror(s))) =>
         UNCHANGED <<isLiveActive, liveError, stream, sourceConnected,
                     processorConnected, inputCtx, outputCtx, closeRejected>>]_vars

\* C11 (SpecTools), as claimed: once a session has ended (stop, close
\* callback or error callback) no segment is scheduled for it, none of its
\* onmessage calls goes on to a store operation or a task-list reload, and
\* no tool response is handed to its transport.
C11_NothingAfterClose ==
  [][\A s \in Sessions :
       Ended(s) =>
         /\ started'[s] = started[s]
         /\ toolResponses'[s] = toolResponses[s]
         /\ \A h \in 1..Len(handlers) :
              handlers[h].s = s => handlers'[h] = handlers[h]]_vars

\* C12 (Spec), as claimed: while a session is Connecting or Active the
\* voice button makes a stop request.
C12_StopAcceptedBeforeOpen ==
  \A s \in Sessions :
    (Live(s) /\ SessionState(s) \in {"Connecting", "Active"}) => toggleStops

\* C13 (SpecPlayback): the first segment of a session starts at the current
\* device time, and a segment that arrives while the clock has not passed
\* nextStartTime starts exactly where the segment before it ends.
C13_BackToBackExact ==
  [][\A s \in Sessions :
       Len(started'[s]) = Len(started[s]) + 1 =>
         LET n == Len(started[s])
             new == started'[s][n + 1]
         IN /\ n = 0 => new[1] = currentTime[s]
            /\ (n > 0 /\ currentTime[s] <= nextStartTime[s]) =>
                 new[1] = started[s][n][1] + started[s][n][2]]_vars

\* A first segment started at a device time past 0, and a second one that
\* arrived before the first had ended, scheduled at the first one's end.
C13_Witness ==
  /\ Len(started[1]) >= 2
  /\ started[1][1][1] > 0
  /\ currentTime[1] < started[1][1][1] + started[1][1][2]
  /\ started[1][2][1] = started[1][1][1] + started[1][1][2]

\* Every response handed to sessionPromise.then so far, sent or waiting.
Handed(s) == toolResponses[s] \o thenQueue[s]

HandedTo(h, i) ==
  { j \in 1..Len(Handed(handlers[h].s)) :
      Handed(handlers[h].s)[j].id = handlers[h].calls[i].id }

UnknownCalls(h) == (1..Len(handlers[h].calls)) \ KnownCalls(h)

\* C14 (SpecTools): a call whose name is none of the five operations is
\* never run against the store, gets exactly one response once the loop has
\* passed it, that response holds the "Unknown function" error, and the
\* step that answers it leaves the stored list unchanged.
UnknownAnsweredOnce ==
  \A h \in 1..Len(handlers) : \A i \in UnknownCalls(h) :
    /\ i \notin handlers[h].ran
    /\ Cardinality(HandedTo(h, i)) = (IF handlers[h].k > i THEN 1 ELSE 0)
    /\ \A j \in HandedTo(h, i) :
         Handed(handlers[h].s)[j].result = ErrorResult(UnknownFunction)

UnknownLeavesStore ==
  \A h \in 1..Len(handlers') : \A i \in UnknownCalls(h)' :
    (HandedTo(h, i)' # {} /\ (h > Len(handlers) \/ HandedTo(h, i) = {})) =>
      localStorage' = localStorage

C14_UnknownTool == [](UnknownAnsweredOnce) /\ [][UnknownLeavesStore]_vars

\* An unknown call answered over the resolved session while tasks are stored.
C14_Witness ==
  \E h \in 1..Len(handlers) : \E i \in UnknownCalls(h) :
    /\ ResponsesTo(h, i) # {}
    /\ Len(localStorage) > 0

CreateCalls(h) ==
  { i \in 1..Len(handlers[h].calls) :
      /\ handlers[h].calls[i].name = "create_task"
      /\ handlers[h].calls[i].args.priority = "" }

\* C15 (SpecTools): the store step of a create_task call without priority
\* puts one new task in front of the unchanged list, with the call's title,
\* priority Medium and completed = false, and the call's one response
\* carries that task.
CreateAddsOneTask ==
  \A h \in 1..Len(handlers) :
    (/\ handlers[h].stage = "op"
     /\ handlers[h].k \in CreateCalls(h)
     /\ handlers'[h] # handlers[h]) =>
      /\ Len(localStorage') = Len(localStorage) + 1
      /\ Tail(localStorage') = localStorage
      /\ Head(localStorage').title = handlers[h].calls[handlers[h].k].args.title
      /\ Head(localStorage').priority = "Medium"
      /\ Head(localStorage').completed = FALSE
      /\ handlers'[h].result = <<CreatedResult(Head(localStorage'))>>

CreateResponseCarriesTask ==
  \A h \in 1..Len(handlers) : \A i \in CreateCalls(h) :
    /\ Cardinality(HandedTo(h, i)) = (IF handlers[h].k > i THEN 1 ELSE 0)
    /\ \A j \in HandedTo(h, i) :
         LET r == Handed(handlers[h].s)[j].result
         IN /\ r.success /\ Len(r.task) = 1
            /\ r.task[1].title = handlers[h].calls[i].args.title
            /\ r.task[1].priority = "Medium"
            /\ r.task[1].completed = FALSE

C15_CreateDefaults == [](CreateResponseCarriesTask) /\ [][CreateAddsOneTask]_vars

\* A create_task call answered over the resolved session, its task added to
\* a list that already held two tasks.
C15_Witness ==
  \E h \in 1..Len(handlers) : \E i \in CreateCalls(h) :
    /\ ResponsesTo(h, i) # {}
    /\ Len(localStorage) = 3
    /\ Head(localStorage).title = "Buy milk"

\* The handler h is at the store operation of a call of this name and the
\* step is its step.
StoreStep(h, name) ==
  /\ handlers[h].stage = "op"
  /\ handlers[h].calls[handlers[h].k].name = name
  /\ handlers'[h] # handlers[h]

\* C16 (SpecTools), as claimed: the store step of an update_task_status
\* call for a stored task sets its completed flag to the given value,
\* stamps completed_at when the flag is now true, and changes no other task.
C16_UpdateStampsCompletion ==
  [][\A h \in 1..Len(handlers) :
       LET fc == handlers[h].calls[handlers[h].k]
           i == findIndex(localStorage, fc.args.taskId)
       IN (StoreStep(h, "update_task_status") /\ i # 0) =>
            /\ Len(localStorage') = Len(localStorage)
            /\ localStorage'[i].completed = fc.args.completed
            /\ fc.args.completed => localStorage'[i].completed_at = "stamped"
            /\ \A j \in 1..Len(localStorage) : j # i => localStorage'[j] = localStorage[j]]_vars

\* C17 (SpecTools): the store step of an update_task_status call for an id
\* that is not stored hands over a response with the "404 Not Found" error
\* and no success, leaves the stored list unchanged and leaves the session
\* in the state it was in.
C17_UpdateMissingIsNotFound ==
  [][\A h \in 1..Len(handlers) :
       LET H == handlers[h]
           fc == H.calls[H.k]
       IN (StoreStep(h, "update_task_status")
           /\ findIndex(localStorage, fc.args.taskId) = 0) =>
            /\ localStorage' = localStorage
            /\ SessionState(H.s)' = SessionState(H.s)
            /\ UNCHANGED <<isLiveActive, liveError, ws>>
            /\ \E j \in 1..Len(Handed(H.s)') :
                 /\ Handed(H.s)'[j].id = fc.id
                 /\ Handed(H.s)'[j].result = ErrorResult(NotFound)
            /\ \A j \in 1..Len(Handed(H.s)') :
                 Handed(H.s)'[j].id = fc.id => ~Handed(H.s)'[j].result.success]_vars

\* An Active session that has sent the not-found error of an update call.
C17_Witness ==
  \E h \in 1..Len(handlers) : \E i \in 1..Len(handlers[h].calls) :
    /\ handlers[h].calls[i].name = "update_task_status"
    /\ i \in handlers[h].failed
    /\ SessionState(handlers[h].s) = "Active"
    /\ \E j \in ResponsesTo(h, i) :
         toolResponses[handlers[h].s][j].result = ErrorResult(NotFound)

\* C18 (SpecStore), as claimed: the store step of a delete_task call
\* removes the task with the call's id and no other; when no stored task has
\* that id the list is unchanged and the call's result is an error, not a
\* success.
C18_DeleteMissingIsNotFound ==
  [][\A h \in 1..Len(handlers) :
       LET id == handlers[h].calls[handlers[h].k].args.taskId
           i == findIndex(localStorage, id)
       IN StoreStep(h, "delete_task") =>
            IF i # 0
            THEN /\ Len(localStorage') = Len(localStorage) - 1
                 /\ \A j \in 1..Len(localStorage') :
                      localStorage'[j] = localStorage[IF j < i THEN j ELSE j + 1]
            ELSE /\ localStorage' = localStorage
                 /\ ~handlers'[h].result[1].success
                 /\ handlers'[h].result[1].error # ""]_vars

\* The positions of the stored tasks that are not completed.
Uncompleted(ts) == { i \in 1..Len(ts) : ~ts[i].completed }

\* C19 (SpecStore): the store step of a delete_completed_tasks call leaves
\* no completed task, keeps every uncompleted task unchanged at its rank
\* among the uncompleted ones, and its result counts the completed tasks it
\* removed; this holds with other handlers between their own steps.
C19_DeleteCompleted ==
  [][\A h \in 1..Len(handlers) :
       StoreStep(h, "delete_completed_tasks") =>
         /\ \A j \in 1..Len(localStorage') : ~localStorage'[j].completed
         /\ Len(localStorage') = Cardinality(Uncompleted(localStorage))
         /\ \A i \in Uncompleted(localStorage) :
              localStorage'[Cardinality({k \in Uncompleted(localStorage) : k <= i})]
                = localStorage[i]
         /\ handlers'[h].result[1].success
         /\ handlers'[h].result[1].count =
              Cardinality((1..Len(localStorage)) \ Uncompleted(localStorage))
         /\ handlers'[h].result[1].count = Len(localStorage) - Len(localStorage')]_vars

\* A delete_completed_tasks call answered with count 1 while a second
\* handler had created a task: the created task and the uncompleted one stay.
C19_Witness ==
  \E h \in 1..Len(handlers) : \E i \in 1..Len(handlers[h].calls) :
    /\ handlers[h].calls[i].name = "delete_completed_tasks"
    /\ \E j \in ResponsesTo(h, i) :
         toolResponses[handlers[h].s][j].result.count = 1
    /\ Len(handlers) = 2
    /\ Len(localStorage) = 2
    /\ \A j \in 1..2 : ~localStorage[j].completed

\* C20 (SpecPlayback): an audio message with an odd number of bytes ends its
\* onmessage call with the decoder's exception: no segment is scheduled,
\* nextStartTime keeps its value, the connection and the session state stay
\* as they were; afterwards an even-sized message is still accepted and is
\* scheduled at max(currentTime, nextStartTime) like any other.
OddChunkDiscarded ==
  \A s \in Sessions : \A bytes \in 1..MaxBytes :
    (bytes % 2 = 1 /\ onmessageAudio(s, bytes)) =>
      /\ unhandled'[s]
      /\ started'[s] = started[s]
      /\ nextStartTime'[s] = nextStartTime[s]
      /\ ws'[s] = ws[s]
      /\ SessionState(s)' = SessionState(s)
      /\ UNCHANGED <<isLiveActive, liveError>>

AcceptsAfterOddChunk ==
  \A s \in Sessions :
    (unhandled[s] /\ ws[s] = "open" /\ Live(s) /\ Len(started[s]) < MaxSegments) =>
      ENABLED onmessageAudio(s, 2)

ScheduledAfterOddChunk ==
  \A s \in Sessions :
    (unhandled[s] /\ Len(started'[s]) = Len(started[s]) + 1) =>
      LET new == started'[s][Len(started'[s])]
      IN /\ new[1] = Max(currentTime[s], nextStartTime[s])
         /\ nextStartTime'[s] = new[1] + new[2]

C20_OddChunkSkipped ==
  /\ [][OddChunkDiscarded]_vars
  /\ [](AcceptsAfterOddChunk)
  /\ [][ScheduledAfterOddChunk]_vars

\* An Active session whose decoder has thrown on an odd chunk, with two
\* segments scheduled back to back and room for more.
C20_Witness ==
  /\ unhandled[1]
  /\ SessionState(1) = "Active"
  /\ ws[1] = "open"
  /\ Len(started[1]) = 2
  /\ nextStartTime[1] = started[1][2][1] + started[1][2][2]

\* One quantization step, in units of 1 / FloatScale.
QuantizationStep == FloatScale \div NegativeScale

Abs(a) == IF a >= 0 THEN a ELSE -a

\* The stored 16-bit value is the clamped sample times 32768 (negative) or
\* 32767 (non-negative) with its fraction cut off toward zero.
EncodesAsClaimed ==
  int16 # <<>> =>
    LET s == IF float32 > FloatScale THEN FloatScale
             ELSE IF float32 < -FloatScale THEN -FloatScale ELSE float32
        e == int16[1]
    IN IF s < 0
       THEN e * FloatScale - s * NegativeScale \in 0..(FloatScale - 1)
       ELSE s * PositiveScale - e * FloatScale \in 0..(FloatScale - 1)

InRange == float32 \in (-FloatScale)..FloatScale

\* C21 (SpecCodec), as claimed: for a sample in [-1, 1] the decoded value
\* is within one quantization step of the sample, and the encoder clamps,
\* scales by 32768 / 32767 and truncates toward zero.
C21_RoundTripOneStep ==
  /\ EncodesAsClaimed
  /\ (decoded # <<>> /\ InRange) => Abs(float32 - decoded[1]) <= QuantizationStep

\* C21 (SpecCodec), as amended: for a sample in [-1, 1] the decoded value
\* is less than two quantization steps away from the sample, less than one
\* for a negative sample, and the encoder clamps, scales by 32768 / 32767
\* and truncates toward zero.
C21_RoundTripTwoSteps ==
  /\ EncodesAsClaimed
  /\ (decoded # <<>> /\ InRange) =>
       /\ Abs(float32 - decoded[1]) < 2 * QuantizationStep
       /\ float32 < 0 => Abs(float32 - decoded[1]) < QuantizationStep

\* A sample of the range decoded more than one step below its value.
C21_Witness ==
  /\ decoded # <<>>
  /\ InRange
  /\ float32 - decoded[1] > QuantizationStep

\* C22 (SpecCapture), as claimed: a frame that is still waiting when the
\* next capture callback runs is dropped, so at most one captured frame
\* waits to be handed to the transport.
C22_CaptureBacklogBounded ==
  \A s \in Sessions : Len(frameQueue[s]) <= 1

\* C23 (SpecCapture): the frames handed to sendRealtimeInput so far, and
\* after them the frames still waiting for the session, are in capture
\* order.
C23_FramesInCaptureOrder ==
  \A s \in Sessions :
    LET q == realtimeInputs[s] \o frameQueue[s]
    IN \A i, j \in 1..Len(q) : i < j => q[i] < q[j]

\* Three frames captured and all three sent by the resolved session.
C23_Witness ==
  /\ captured[1] = 3
  /\ Len(realtimeInputs[1]) = 3
  /\ sessionPromise[1] = "resolved"

\* C24 (SpecTools), as claimed: a step in which startLiveSession fails, the
\* connect promise rejects or onerror runs leaves the session Failed and
\* shows the message of its cause: the device message exactly when the
\* microphone was not acquired, the connection message for a transport
\* failure; a step of the tool-call loop leaves the shown error alone.
C24_MessageMatchesCause ==
  [][/\ \A s \in Sessions :
          /\ (pc[s] = "gum" /\ pc'[s] = "caught") =>
               /\ SessionState(s)' = "Failed"
               /\ (liveError' = DeviceUnavailable) <=> (stream'[s] = "none")
          /\ (\/ sessionPromise[s] = "pending" /\ sessionPromise'[s] = "rejected"
              \/ ~errored[s] /\ errored'[s]) =>
               /\ SessionState(s)' = "Failed"
               /\ liveError' = ConnectionError
     /\ handlers' # handlers => liveError' = liveError]_vars

\* Task id has a warning toast after its last overdue toast.
WarnedSinceOverdue(id, shown) ==
  \E i \in 1..Len(shown) :
    /\ shown[i] = <<"warning", id>>
    /\ \A j \in 1..Len(shown) : shown[j] = <<"error", id>> => j < i

\* C25 (SpecNotifier), as claimed: the callback that raises a task's
\* overdue alert leaves its approaching flag reset, and a callback that
\* finds a task with an overdue alert due within the next 15 minutes has
\* raised an approaching warning for it since that alert.
C25_OverdueResetsApproaching ==
  [][/\ \A id \in TaskIds :
          (~notifiedRef[id].overdue /\ notifiedRef'[id].overdue) =>
            ~notifiedRef'[id].approaching
     /\ now' # now =>
          \A k \in 1..Len(tasks) :
            (/\ ~tasks[k].completed
             /\ tasks[k].due_date - now' > 0
             /\ tasks[k].due_date - now' <= ApproachWindow
             /\ notifiedRef[tasks[k].id].overdue) =>
              WarnedSinceOverdue(tasks[k].id, toasts')]_vars

TaskIdsOf(ts) == { ts[i].id : i \in 1..Len(ts) }

\* new is old with one task put in front, one task changed in place, one
\* task taken out, or every completed task taken out: the work of one store
\* operation on the list as it stood, with nothing else added, lost or
\* reverted.
OneOperation(old, new) ==
  \/ /\ Len(new) = Len(old) + 1
     /\ Tail(new) = old
     /\ Head(new).id \notin TaskIdsOf(old)
  \/ /\ Len(new) = Len(old)
     /\ \E i \in 1..Len(old) :
          /\ new[i].id = old[i].id
          /\ \A j \in 1..Len(old) : j # i => new[j] = old[j]
  \/ \E i \in 1..Len(old) :
       new = [j \in 1..(Len(old) - 1) |-> IF j < i THEN old[j] ELSE old[j + 1]]
  \/ /\ \A j \in 1..Len(new) : ~new[j].completed
     /\ Len(new) = Cardinality(Uncompleted(old))
     /\ \A i \in Uncompleted(old) :
          new[Cardinality({k \in Uncompleted(old) : k <= i})] = old[i]

\* C26 (SpecUi): every step that writes the stored list writes the list of
\* the moment changed by one operation, whatever tool-call handlers and
\* task handlers are between their steps, so no earlier write is lost.
C26_WritesSerialized ==
  [][localStorage' # localStorage => OneOperation(localStorage, localStorage')]_vars

\* A task created by a tool call and one created by handleSave are both in
\* the list.
C26_Witness ==
  /\ \E i, j \in 1..Len(localStorage) :
       localStorage[i].title = "Buy milk" /\ localStorage[j].title = "Walk dog"
  /\ \E i \in 1..Len(uiOps) : uiOps[i] = Done
  /\ \E h \in 1..Len(handlers) : handlers[h].ran # {}

\* C27 (SpecStore): in every onmessage call the loop is at one call k: the
\* calls before k have their results handed over, no call after k has
\* touched the store or has a result, and the results of one message are
\* handed over in the order of its calls.
C27_CallsOfAMessageInOrder ==
  /\ \A h \in 1..Len(handlers) :
       LET H == handlers[h]
       IN \A i \in 1..Len(H.calls) :
            /\ i < H.k => HandedTo(h, i) # {}
            /\ i >= H.k => HandedTo(h, i) = {}
            /\ i > H.k => i \notin H.ran
  /\ \A s \in Sessions :
       \A p, q \in 1..Len(Handed(s)) :
         (p < q /\ Handed(s)[p].id \div 10 = Handed(s)[q].id \div 10) =>
           Handed(s)[p].id < Handed(s)[q].id

\* A message of two calls that both ran against the store, answered in the
\* order of the calls.
C27_Witness ==
  \E h \in 1..Len(handlers) :
    /\ Len(handlers[h].calls) = 2
    /\ handlers[h].ran = {1, 2}
    /\ handlers[h].stage = "done"
    /\ \E p, q \in 1..Len(toolResponses[handlers[h].s]) :
         /\ p < q
         /\ toolResponses[handlers[h].s][p].id = handlers[h].calls[1].id
         /\ toolResponses[handlers[h].s][q].id = handlers[h].calls[2].id

\* The session holds its microphone and its processor is wired between the
\* stream source and the open connection.
Capturing(s) ==
  /\ Live(s)
  /\ stream[s] = "live"
  /\ inputCtx[s] = "running"
  /\ sourceConnected[s] /\ processorConnected[s]
  /\ ws[s] = "open"

\* C28 (Spec): isLiveActive turns true only in the step of an onopen
\* callback, is false after every step of a stop, an onclose or an onerror,
\* and whenever it is true some session is Active, holds its microphone and
\* has its processor wired to its open connection.
ActiveFlagSteps ==
  /\ (~isLiveActive /\ isLiveActive') => \E s \in Sessions : ~opened[s] /\ opened'[s]
  /\ (\/ page' # page
      \/ \E s \in Sessions : (~closed[s] /\ closed'[s]) \/ (~errored[s] /\ errored'[s]))
       => ~isLiveActive'

ActiveFlagMeansCapturing ==
  isLiveActive => \E s \in Sessions : SessionState(s) = "Active" /\ Capturing(s)

C28_ActiveFlag == [](ActiveFlagMeansCapturing) /\ [][ActiveFlagSteps]_vars

\* The flag is true while one session has failed and another is Active.
C28_Witness ==
  /\ isLiveActive
  /\ \E s, r \in Sessions :
       /\ SessionState(s) = "Active" /\ Capturing(s)
       /\ SessionState(r) = "Failed"

=============================================================================
